---- MODULE Spec2Model ----
(***************************************************************************)
(* DataDuck (src/app.py): a Streamlit session that records duck-race       *)
(* winners in one Google-Sheets worksheet per team, caches what it reads   *)
(* in the session state, and guards the store behind a client-side         *)
(* sliding-window rate governor.                                           *)
(*                                                                         *)
(* Five specifications share the variables below:                          *)
(*   SpecGov    the rate governor alone (check_api_rate_limit,             *)
(*              record_api_call) under an advancing clock;                 *)
(*   Spec       the session: load_data, save_winner_to_sheets,             *)
(*              get_or_create_worksheet, team switch, refresh;             *)
(*   SpecBusy   the session loading and saving as fast as the governor     *)
(*              allows, minute after minute up to the hour ceiling;        *)
(*   SpecStats  calculate_statistics applied to bounded record lists;      *)
(*   SpecTiers  the Hall of Fame tiers over the win counts.                *)
(*                                                                         *)
(* Text is modelled as a sequence of one-character strings, so that        *)
(* str.strip() is computed; a date cell is a TLA+ string parsed through    *)
(* the table IsoDates.  The clock is in whole seconds.                     *)
(***************************************************************************)
EXTENDS Integers, Sequences, FiniteSets, TLC

VARIABLES
    now,             \* time.time(), in seconds
    api_call_times,  \* st.session_state.api_call_times
    selected_team,   \* st.session_state.selected_team
    cached_data,     \* st.session_state["cached_data_<team>"], per team
    cache_time,      \* st.session_state["cache_time_<team>"], per team
    sheets,          \* the spreadsheet: one worksheet per team
    failures,        \* how many operations so far saw a store request fail
    last,            \* the operation that ran last, its arguments and result
    data,            \* calculate_statistics: the list load_data returned
    stats,           \* calculate_statistics: its result
    hall,            \* the Hall of Fame: the winners listed under each tier
    history          \* per team: what the session read and saved so far

vars == <<now, api_call_times, selected_team, cached_data, cache_time,
          sheets, failures, last, data, stats, hall, history>>

----------------------------------------------------------------------------
(* Program constants *)

MAX_API_CALLS_PER_MINUTE == 15
MAX_API_CALLS_PER_HOUR == 200
MINUTE_SECONDS == 60
HOUR_SECONDS == 3600
CACHE_SECONDS == 60

Teams == {"Clean Room", "Collab Cloud"}

----------------------------------------------------------------------------
(* Bounds of the model *)

\* SpecGov: the longest timestamp list, and how many distinct instants it
\* may hold
MaxCalls == 200
MaxStamps == 2
\* SpecGov: the instants the clock visits
GovInstants == {0, 1, 60, 3600}
\* Spec: the instants the clock visits, the most record rows of the spreadsheet,
\* the winners and race dates the Add Winner form offers
SessionInstants == {0, 3600}
MaxRows == 2
MaxFailures == 1
\* SpecBusy: the clock visits the minutes 0 .. MaxBusyMinutes and then the
\* end of the hour
MaxBusyMinutes == 13
\* SpecStats: the longest record list
MaxRecords == 3
\* SpecTiers: the longest record list
MaxTierRecords == 9
Players == {<<"S", "a", "m">>}
SaveDates == {2}

----------------------------------------------------------------------------
(* Sequences *)

Range(s) == {s[i] : i \in 1..Len(s)}

\* the number of positions of s whose element satisfies Test
Count(s, Test(_)) == Cardinality({i \in 1..Len(s) : Test(s[i])})

----------------------------------------------------------------------------
(* Rate governor *)

\* check_api_rate_limit with the minute ceiling compared by > instead of >=
check_api_rate_limit_gt(times, current_time) ==
    LET kept == SelectSeq(times,
                    LAMBDA call_time : current_time - call_time < HOUR_SECONDS)
        calls_last_minute ==
            Len(SelectSeq(kept,
                    LAMBDA call_time : current_time - call_time < MINUTE_SECONDS))
        calls_last_hour == Len(kept)
        minute_warning == calls_last_minute * 10 >= MAX_API_CALLS_PER_MINUTE * 8
        hour_warning == calls_last_hour * 10 >= MAX_API_CALLS_PER_HOUR * 8
        minute_exceeded == calls_last_minute > MAX_API_CALLS_PER_MINUTE
        hour_exceeded == calls_last_hour >= MAX_API_CALLS_PER_HOUR
    IN  [times |-> kept,
         status |-> [calls_last_minute |-> calls_last_minute,
                     calls_last_hour |-> calls_last_hour,
                     minute_warning |-> minute_warning,
                     hour_warning |-> hour_warning,
                     minute_exceeded |-> minute_exceeded,
                     hour_exceeded |-> hour_exceeded,
                     can_make_call |-> ~(minute_exceeded \/ hour_exceeded)]]

\* check_api_rate_limit with the minute warning raised at the ceiling itself
\* instead of at 80% of it
check_api_rate_limit_latewarn(times, current_time) ==
    LET kept == SelectSeq(times,
                    LAMBDA call_time : current_time - call_time < HOUR_SECONDS)
        calls_last_minute ==
            Len(SelectSeq(kept,
                    LAMBDA call_time : current_time - call_time < MINUTE_SECONDS))
        calls_last_hour == Len(kept)
        minute_warning == calls_last_minute >= MAX_API_CALLS_PER_MINUTE
        hour_warning == calls_last_hour * 10 >= MAX_API_CALLS_PER_HOUR * 8
        minute_exceeded == calls_last_minute >= MAX_API_CALLS_PER_MINUTE
        hour_exceeded == calls_last_hour >= MAX_API_CALLS_PER_HOUR
    IN  [times |-> kept,
         status |-> [calls_last_minute |-> calls_last_minute,
                     calls_last_hour |-> calls_last_hour,
                     minute_warning |-> minute_warning,
                     hour_warning |-> hour_warning,
                     minute_exceeded |-> minute_exceeded,
                     hour_exceeded |-> hour_exceeded,
                     can_make_call |-> ~(minute_exceeded \/ hour_exceeded)]]

\* check_api_rate_limit pruning at the minute horizon instead of the hour
\* horizon
check_api_rate_limit_minprune(times, current_time) ==
    LET kept == SelectSeq(times,
                    LAMBDA call_time : current_time - call_time < MINUTE_SECONDS)
        calls_last_minute ==
            Len(SelectSeq(kept,
                    LAMBDA call_time : current_time - call_time < MINUTE_SECONDS))
        calls_last_hour == Len(kept)
        minute_warning == calls_last_minute * 10 >= MAX_API_CALLS_PER_MINUTE * 8
        hour_warning == calls_last_hour * 10 >= MAX_API_CALLS_PER_HOUR * 8
        minute_exceeded == calls_last_minute >= MAX_API_CALLS_PER_MINUTE
        hour_exceeded == calls_last_hour >= MAX_API_CALLS_PER_HOUR
    IN  [times |-> kept,
         status |-> [calls_last_minute |-> calls_last_minute,
                     calls_last_hour |-> calls_last_hour,
                     minute_warning |-> minute_warning,
                     hour_warning |-> hour_warning,
                     minute_exceeded |-> minute_exceeded,
                     hour_exceeded |-> hour_exceeded,
                     can_make_call |-> ~(minute_exceeded \/ hour_exceeded)]]

\* check_api_rate_limit, as a function of the stored list and time.time():
\* the pruned list it stores back and the status it returns
check_api_rate_limit(times, current_time) ==
    LET kept == SelectSeq(times,
                    LAMBDA call_time : current_time - call_time < HOUR_SECONDS)
        calls_last_minute ==
            Len(SelectSeq(kept,
                    LAMBDA call_time : current_time - call_time < MINUTE_SECONDS))
        calls_last_hour == Len(kept)
        \* MAX * 0.8 over the integers: count >= MAX * 8 / 10
        minute_warning == calls_last_minute * 10 >= MAX_API_CALLS_PER_MINUTE * 8
        hour_warning == calls_last_hour * 10 >= MAX_API_CALLS_PER_HOUR * 8
        minute_exceeded == calls_last_minute >= MAX_API_CALLS_PER_MINUTE
        hour_exceeded == calls_last_hour >= MAX_API_CALLS_PER_HOUR
    IN  [times |-> kept,
         status |-> [calls_last_minute |-> calls_last_minute,
                     calls_last_hour |-> calls_last_hour,
                     minute_warning |-> minute_warning,
                     hour_warning |-> hour_warning,
                     minute_exceeded |-> minute_exceeded,
                     hour_exceeded |-> hour_exceeded,
                     can_make_call |-> ~(minute_exceeded \/ hour_exceeded)]]

\* record_api_call appending the timestamp twice
record_api_call_twice(times, current_time) ==
    Append(Append(times, current_time), current_time)

\* record_api_call: the list after appending time.time()
record_api_call(times, current_time) == Append(times, current_time)

\* the status fields of `last` when no check ran
NoStatus ==
    [calls_last_minute |-> 0, calls_last_hour |-> 0,
     minute_warning |-> FALSE, hour_warning |-> FALSE,
     minute_exceeded |-> FALSE, hour_exceeded |-> FALSE,
     can_make_call |-> TRUE]

\* `stats` when calculate_statistics returned no bundle
NoStats(kind) ==
    [kind |-> kind, total_races |-> 0, unique_winners |-> 0,
     win_counts |-> <<>>, current_champion |-> <<>>,
     champion_total_wins |-> 0, cumulative |-> <<>>]

\* `last` before any operation ran
NoOp ==
    [op |-> "none", team |-> "", force |-> FALSE, winner |-> <<>>,
     race_date |-> 0, checked |-> FALSE, dropped |-> 0, status |-> NoStatus,
     path |-> "", records |-> <<>>, ok |-> FALSE, requests |-> 0]

----------------------------------------------------------------------------
(* State after construction *)

NoCache == [has |-> FALSE, val |-> <<>>]
NoCacheTime == [has |-> FALSE, val |-> 0]
NoSheet == [exists |-> FALSE, headers |-> <<>>, rows |-> <<>>]

\* `hall` before the statistics tab rendered the Hall of Fame
NoHall ==
    [kind |-> "unset", diamond |-> {}, platinum |-> {}, gold |-> {},
     silver |-> {}, bronze |-> {}]

\* `history` of a team nothing was read from or saved to: `read` a load_data
\* fetched its records, `records` the records fetched last, `saved` a save
\* returned True, `stale` a save returned True after the last fetch,
\* `cleared` clear_cache_for_team ran after the last fetch
NoHistory ==
    [read |-> FALSE, records |-> <<>>, saved |-> FALSE, stale |-> FALSE,
     cleared |-> FALSE]

SessionInit ==
    /\ now = 0
    /\ api_call_times = <<>>
    /\ selected_team = "Clean Room"
    /\ cached_data = [t \in Teams |-> NoCache]
    /\ cache_time = [t \in Teams |-> NoCacheTime]
    /\ failures = 0
    /\ last = NoOp
    /\ stats = NoStats("unset")
    /\ hall = NoHall
    /\ history = [t \in Teams |-> NoHistory]

----------------------------------------------------------------------------
(* SpecGov: the governor under a clock *)

GovInit ==
    /\ SessionInit
    /\ sheets = [t \in Teams |-> NoSheet]
    /\ data = <<>>

\* record_api_call()
GovRecord ==
    /\ Len(api_call_times) < MaxCalls
    /\ Cardinality(Range(api_call_times) \cup {now}) <= MaxStamps
    /\ api_call_times' = record_api_call(api_call_times, now)
    /\ last' = [NoOp EXCEPT !.op = "record_api_call"]
    /\ UNCHANGED <<now, selected_team, cached_data, cache_time, sheets,
                   failures, data, stats, hall, history>>

\* check_api_rate_limit()
GovCheck ==
    \E r \in {check_api_rate_limit(api_call_times, now)} :
        /\ api_call_times' = r.times
        /\ last' = [NoOp EXCEPT !.op = "check_api_rate_limit",
                                !.checked = TRUE, !.status = r.status,
                                !.dropped = Len(api_call_times) - Len(r.times)]
        /\ UNCHANGED <<now, selected_team, cached_data, cache_time, sheets,
                       failures, data, stats, hall, history>>

\* the clock moves on to a later instant
GovTick ==
    /\ \E t \in GovInstants : t > now /\ now' = t
    /\ last' = [NoOp EXCEPT !.op = "tick"]
    /\ UNCHANGED <<api_call_times, selected_team, cached_data, cache_time,
                   sheets, failures, data, stats, hall, history>>

GovNext == GovRecord \/ GovCheck \/ GovTick

SpecGov == GovInit /\ [][GovNext]_vars

----------------------------------------------------------------------------
(* Text, dates and worksheets *)

Sam == <<"S", "a", "m">>
Nate == <<"N", "a", "t", "e">>
WinnerText == <<"w", "i", "n", "n", "e", "r">>

\* the ISO texts of the race dates, in calendar order; a date object is its
\* position in this table
IsoDates == <<"2024-01-01", "2024-01-08", "2024-01-15">>

\* date.isoformat()
isoformat(race_date) == IsoDates[race_date]

\* the header row the program expects, and the same row read as a record row
HEADERS == <<"winner", "date">>
HeaderRow == <<WinnerText, "date">>

\* the header row of the five-column revision of the schema
LegacyHeaders == <<"winner", "date", "week", "year", "notes">>

BlankSheet == [exists |-> TRUE, headers |-> <<>>, rows |-> <<>>]

\* worksheet.append_row(['winner', 'date']): the row lands in row 1 of an
\* empty sheet and after the last row of any other
append_header(ws) ==
    IF ws.headers = <<>> /\ ws.rows = <<>>
    THEN [ws EXCEPT !.headers = HEADERS]
    ELSE [ws EXCEPT !.rows = Append(@, HeaderRow)]

\* worksheet.append_row(new_row) on a sheet whose row 1 is filled
append_row(ws, new_row) == [ws EXCEPT !.rows = Append(@, new_row)]

\* the column of header name h
Column(headers, h) == CHOOSE i \in 1..Len(headers) : headers[i] = h

\* worksheet.get_all_records(): one record per row below row 1, keyed by the
\* header names; a missing cell reads as the empty text
get_all_records(ws) ==
    [i \in 1..Len(ws.rows) |->
        [h \in Range(ws.headers) |->
            IF Column(ws.headers, h) <= Len(ws.rows[i])
            THEN ws.rows[i][Column(ws.headers, h)]
            ELSE ""]]

\* the store requests a session operation may see fail, by call site
WorksheetFailScenarios ==
    { {}, {"worksheet"}, {"add_worksheet"}, {"row_values"}, {"clear"},
      {"append_row_131"}, {"row_values", "append_row_133"} }
\* init_google_sheets is cached for the session: it can fail only where it
\* runs first, in the connection test
ConnectFailScenarios == WorksheetFailScenarios \cup {{"init_google_sheets"}}
LoadFailScenarios == WorksheetFailScenarios \cup {{"get_all_records"}}
SaveFailScenarios == WorksheetFailScenarios \cup {{"append_row_222"}}

Conn(ok, sheet, calls) == [ok |-> ok, sheet |-> sheet, calls |-> calls]

\* get_or_create_worksheet, the except branch of the header initialisation
\* (line 133); `calls` lists the store requests sent so far
except_append(ws, fails, calls) ==
    IF "append_row_133" \in fails
    THEN Conn(FALSE, ws, Append(calls, "append_row_133"))
    ELSE Conn(TRUE, append_header(ws), Append(calls, "append_row_133"))

\* get_or_create_worksheet, the header initialisation (lines 127-133)
init_headers(ws, fails, calls) ==
    IF "row_values" \in fails
    THEN except_append(ws, fails, Append(calls, "row_values"))
    ELSE IF ws.headers = <<>> \/ ws.headers # HEADERS
    THEN IF "clear" \in fails
         THEN except_append(ws, fails, calls \o <<"row_values", "clear">>)
         ELSE IF "append_row_131" \in fails
         THEN except_append(BlankSheet, fails,
                  calls \o <<"row_values", "clear", "append_row_131">>)
         ELSE Conn(TRUE, append_header(BlankSheet),
                  calls \o <<"row_values", "clear", "append_row_131">>)
    ELSE Conn(TRUE, ws, Append(calls, "row_values"))

\* get_or_create_worksheet(team_name) on the team's worksheet: whether a
\* worksheet is returned, the worksheet afterwards, the store requests sent.
\* init_google_sheets is a cached resource and sends none.
get_or_create_worksheet(sheet, fails) ==
    IF "init_google_sheets" \in fails
    THEN Conn(FALSE, sheet, <<>>)
    ELSE IF "worksheet" \in fails
    THEN Conn(FALSE, sheet, <<"worksheet">>)
    ELSE IF ~sheet.exists
    THEN IF "add_worksheet" \in fails
         THEN Conn(FALSE, sheet, <<"worksheet", "add_worksheet">>)
         ELSE init_headers(BlankSheet, fails, <<"worksheet", "add_worksheet">>)
    ELSE init_headers(sheet, fails, <<"worksheet">>)

\* a failure scenario happens only if every failing request is one the
\* operation sends
Happens(fails, calls) == fails \subseteq (Range(calls) \cup {"init_google_sheets"})

\* an operation with a failing request counts against the failures the
\* session may see
Injected(fails) ==
    /\ fails # {} => failures < MaxFailures
    /\ failures' = IF fails = {} THEN failures ELSE failures + 1

----------------------------------------------------------------------------
(* Session cache *)

\* clear_cache_for_team deleting the cache time and leaving the cached records
clear_cache_for_team_time_only(data_map, time_map, team_name) ==
    [cached_data |-> data_map,
     cache_time |-> [time_map EXCEPT ![team_name] = NoCacheTime]]

\* clear_cache_for_team(team_name): both session keys of the team deleted
clear_cache_for_team(data_map, time_map, team_name) ==
    [cached_data |-> [data_map EXCEPT ![team_name] = NoCache],
     cache_time |-> [time_map EXCEPT ![team_name] = NoCacheTime]]

----------------------------------------------------------------------------
(* load_data *)

\* what load_data hands back and leaves behind
Loaded(times, sh, cd, ct, records, path, r, calls) ==
    [api_call_times |-> times, sheets |-> sh, cached_data |-> cd,
     cache_time |-> ct, records |-> records, path |-> path,
     checked |-> TRUE, status |-> r.status,
     dropped |-> Len(api_call_times) - Len(r.times), calls |-> calls]

\* the rate-limited branch of load_data without the cached fallback
load_data_rate_limited_empty(team_name) ==
    [path |-> "rate_limited_empty", records |-> <<>>]

\* load_data, lines 157-166: the governor refused the call
load_data_rate_limited(team_name) ==
    IF cached_data[team_name].has
    THEN [path |-> "rate_limited_cached", records |-> cached_data[team_name].val]
    ELSE [path |-> "rate_limited_empty", records |-> <<>>]

\* load_data, lines 172-174: no worksheet was obtained
load_data_no_worksheet(team_name) ==
    [path |-> "no_worksheet", records |-> <<>>]

\* load_data, lines 188-195: fetching the records raised
load_data_read_failed(team_name) ==
    IF cached_data[team_name].has
    THEN [path |-> "read_failed_cached", records |-> cached_data[team_name].val]
    ELSE [path |-> "read_failed_empty", records |-> <<>>]

\* the cache test of load_data with a cache exactly 60 seconds old still
\* taken as fresh
cache_is_fresh_at_60(team_name, force_refresh) ==
    /\ ~force_refresh
    /\ cached_data[team_name].has
    /\ cache_time[team_name].has
    /\ now - cache_time[team_name].val <= CACHE_SECONDS

\* load_data, lines 148-150: a cached copy exists, no refresh is forced and
\* the copy is less than 60 seconds old
cache_is_fresh(team_name, force_refresh) ==
    /\ ~force_refresh
    /\ cached_data[team_name].has
    /\ cache_time[team_name].has
    /\ now - cache_time[team_name].val < CACHE_SECONDS

\* load_data(team_name, force_refresh) with the store requests in `fails`
\* failing
load_data(team_name, force_refresh, fails) ==
    LET fresh == cache_is_fresh(team_name, force_refresh)
        r == check_api_rate_limit(api_call_times, now)
        g == get_or_create_worksheet(sheets[team_name], fails)
        sh == [sheets EXCEPT ![team_name] = g.sheet]
        records == get_all_records(g.sheet)
    IN  IF fresh
        THEN [api_call_times |-> api_call_times, sheets |-> sheets,
              cached_data |-> cached_data, cache_time |-> cache_time,
              records |-> cached_data[team_name].val, path |-> "fresh_cache",
              checked |-> FALSE, status |-> NoStatus, dropped |-> 0,
              calls |-> <<>>]
        ELSE IF ~r.status.can_make_call
        THEN Loaded(r.times, sheets, cached_data, cache_time,
                    load_data_rate_limited(team_name).records,
                    load_data_rate_limited(team_name).path, r, <<>>)
        ELSE IF ~g.ok
        THEN Loaded(r.times, sh, cached_data, cache_time,
                    load_data_no_worksheet(team_name).records,
                    load_data_no_worksheet(team_name).path, r, g.calls)
        ELSE IF "get_all_records" \in fails
        THEN Loaded(record_api_call(r.times, now), sh, cached_data, cache_time,
                    load_data_read_failed(team_name).records,
                    load_data_read_failed(team_name).path, r,
                    Append(g.calls, "get_all_records"))
        ELSE Loaded(record_api_call(r.times, now), sh,
                    [cached_data EXCEPT ![team_name] =
                        [has |-> TRUE, val |-> records]],
                    [cache_time EXCEPT ![team_name] =
                        [has |-> TRUE, val |-> now]],
                    records, "read_ok", r, Append(g.calls, "get_all_records"))

----------------------------------------------------------------------------
(* save_winner_to_sheets *)

Saved(times, sh, cd, ct, ok, path, r, calls) ==
    [api_call_times |-> times, sheets |-> sh, cached_data |-> cd,
     cache_time |-> ct, ok |-> ok, path |-> path, status |-> r.status,
     dropped |-> Len(api_call_times) - Len(r.times), calls |-> calls]

\* the rate check of save_winner_to_sheets taken as the docstring words it:
\* "check API rate limits but allow the save"
save_refusal_allow(status) == ""

\* save_winner_to_sheets, lines 202-208: the refusal, "" when the save goes
\* ahead
save_refusal(status) ==
    IF ~status.can_make_call /\ status.minute_exceeded THEN "minute_exceeded"
    ELSE IF ~status.can_make_call /\ status.hour_exceeded THEN "hour_exceeded"
    ELSE ""

\* the except branch of save_winner_to_sheets with the cache cleared before
\* the append was known to succeed
save_append_raised_clearing(times, sh, r, calls) ==
    Saved(times, sh,
          clear_cache_for_team(cached_data, cache_time, selected_team).cached_data,
          clear_cache_for_team(cached_data, cache_time, selected_team).cache_time,
          FALSE, "append_failed", r, calls)

\* save_winner_to_sheets, lines 228-230: append_row raised
save_append_raised(times, sh, r, calls) ==
    Saved(times, sh, cached_data, cache_time, FALSE, "append_failed", r, calls)

\* the success branch of save_winner_to_sheets without the cache cleared
save_appended_keeping_cache(times, sh, r, calls) ==
    Saved(times, sh, cached_data, cache_time, TRUE, "saved", r, calls)

\* save_winner_to_sheets, lines 224-227: append_row returned
save_appended(times, sh, r, calls) ==
    Saved(times, sh,
          clear_cache_for_team(cached_data, cache_time, selected_team).cached_data,
          clear_cache_for_team(cached_data, cache_time, selected_team).cache_time,
          TRUE, "saved", r, calls)

\* save_winner_to_sheets(winner_name, race_date) for the selected team with
\* the store requests in `fails` failing
save_winner_to_sheets(winner_name, race_date, fails) ==
    LET team == selected_team
        r == check_api_rate_limit(api_call_times, now)
        g == get_or_create_worksheet(sheets[team], fails)
        sh == [sheets EXCEPT ![team] = g.sheet]
        new_row == <<winner_name, isoformat(race_date)>>
    IN  IF save_refusal(r.status) # ""
        THEN Saved(r.times, sheets, cached_data, cache_time, FALSE,
                   save_refusal(r.status), r, <<>>)
        ELSE IF ~g.ok
        THEN Saved(r.times, sh, cached_data, cache_time, FALSE,
                   "no_worksheet", r, g.calls)
        ELSE IF "append_row_222" \in fails
        THEN save_append_raised(record_api_call(r.times, now), sh, r,
                                Append(g.calls, "append_row_222"))
        ELSE save_appended(record_api_call(r.times, now),
                           [sh EXCEPT ![team] = append_row(g.sheet, new_row)],
                           r, Append(g.calls, "append_row_222"))

----------------------------------------------------------------------------
(* Spec: the session *)

\* `history` once load_data handed back `records` on `path` for the team
AfterLoad(team_name, path, records) ==
    IF path = "read_ok"
    THEN [history EXCEPT ![team_name] =
             [@ EXCEPT !.read = TRUE, !.records = records,
                       !.stale = FALSE, !.cleared = FALSE]]
    ELSE history

\* `history` once clear_cache_for_team ran for the team
AfterClear(hist, team_name) ==
    [hist EXCEPT ![team_name] = [@ EXCEPT !.cleared = @ \/ hist[team_name].read]]

\* `history` once save_winner_to_sheets returned `ok` for the team
AfterSave(team_name, ok) ==
    IF ok
    THEN AfterClear([history EXCEPT ![team_name] =
                        [@ EXCEPT !.saved = TRUE, !.stale = @ \/ history[team_name].read]],
                    team_name)
    ELSE history

\* a worksheet the spreadsheet may hold before the session starts
InitialSheets ==
    { NoSheet,
      [exists |-> TRUE, headers |-> HEADERS,
       rows |-> << <<Sam, "2024-01-01">> >>],
      [exists |-> TRUE, headers |-> LegacyHeaders,
       rows |-> << <<Sam, "2024-01-01", "1", "2024", "">> >>] }

Init ==
    /\ SessionInit
    /\ data = <<>>
    /\ \E ws \in InitialSheets :
           sheets = [t \in Teams |-> IF t = "Clean Room" THEN ws ELSE NoSheet]

\* the record rows of all worksheets together
RECURSIVE RowsStored(_, _)
RowsStored(sh, teams) ==
    IF teams = {} THEN 0
    ELSE LET t == CHOOSE x \in teams : TRUE
         IN  Len(sh[t].rows) + RowsStored(sh, teams \ {t})

Fits(sh) == RowsStored(sh, Teams) <= MaxRows

\* the connection test of every script run (line 365)
TestConnection ==
    \E fails \in ConnectFailScenarios :
        \E g \in {get_or_create_worksheet(sheets[selected_team], fails)} :
            /\ Happens(fails, g.calls)
            /\ Fits([sheets EXCEPT ![selected_team] = g.sheet])
            /\ sheets' = [sheets EXCEPT ![selected_team] = g.sheet]
            /\ last' = [NoOp EXCEPT !.op = "get_or_create_worksheet",
                                    !.team = selected_team, !.ok = g.ok,
                                    !.requests = Len(g.calls)]
            /\ Injected(fails)
            /\ UNCHANGED <<now, api_call_times, selected_team, cached_data,
                           cache_time, data, stats, hall, history>>

\* load_data for the selected team: the page body (force_refresh = False)
\* and the Refresh Data button (force_refresh = True)
LoadData ==
    \E force \in BOOLEAN, fails \in LoadFailScenarios :
        \E res \in {load_data(selected_team, force, fails)} :
            /\ Happens(fails, res.calls)
            /\ Fits(res.sheets)
            /\ api_call_times' = res.api_call_times
            /\ sheets' = res.sheets
            /\ cached_data' = res.cached_data
            /\ cache_time' = res.cache_time
            /\ last' = [NoOp EXCEPT !.op = "load_data",
                                    !.team = selected_team, !.force = force,
                                    !.checked = res.checked,
                                    !.status = res.status,
                                    !.dropped = res.dropped,
                                    !.path = res.path,
                                    !.records = res.records,
                                    !.requests = Len(res.calls)]
            /\ history' = AfterLoad(selected_team, res.path, res.records)
            /\ Injected(fails)
            /\ UNCHANGED <<now, selected_team, data, stats, hall>>

\* the Add Winner button
SaveWinner ==
    \E winner_name \in Players, race_date \in SaveDates,
       fails \in SaveFailScenarios :
        \E res \in {save_winner_to_sheets(winner_name, race_date, fails)} :
            /\ Happens(fails, res.calls)
            /\ Fits(res.sheets)
            /\ api_call_times' = res.api_call_times
            /\ sheets' = res.sheets
            /\ cached_data' = res.cached_data
            /\ cache_time' = res.cache_time
            /\ last' = [NoOp EXCEPT !.op = "save_winner_to_sheets",
                                    !.team = selected_team,
                                    !.winner = winner_name,
                                    !.race_date = race_date,
                                    !.checked = TRUE,
                                    !.status = res.status,
                                    !.dropped = res.dropped,
                                    !.path = res.path,
                                    !.ok = res.ok,
                                    !.requests = Len(res.calls)]
            /\ history' = AfterSave(selected_team, res.ok)
            /\ Injected(fails)
            /\ UNCHANGED <<now, selected_team, data, stats, hall>>

\* the team selector and the Quick Team Switch button
SwitchTeam ==
    \E team_option \in Teams :
        /\ team_option # selected_team
        /\ selected_team' = team_option
        /\ cached_data' =
               clear_cache_for_team(cached_data, cache_time, team_option).cached_data
        /\ cache_time' =
               clear_cache_for_team(cached_data, cache_time, team_option).cache_time
        /\ last' = [NoOp EXCEPT !.op = "switch_team", !.team = team_option]
        /\ history' = AfterClear(history, team_option)
        /\ UNCHANGED <<now, api_call_times, sheets, failures, data, stats,
                       hall>>

\* the Refresh Stats and Force Refresh Data buttons
RefreshStats ==
    /\ cached_data' =
           clear_cache_for_team(cached_data, cache_time, selected_team).cached_data
    /\ cache_time' =
           clear_cache_for_team(cached_data, cache_time, selected_team).cache_time
    /\ last' = [NoOp EXCEPT !.op = "refresh_stats", !.team = selected_team]
    /\ history' = AfterClear(history, selected_team)
    /\ UNCHANGED <<now, api_call_times, selected_team, sheets, failures,
                   data, stats, hall>>

\* the API usage displays (lines 525, 593, 896)
ShowStatus ==
    \E r \in {check_api_rate_limit(api_call_times, now)} :
        /\ api_call_times' = r.times
        /\ last' = [NoOp EXCEPT !.op = "check_api_rate_limit",
                                !.checked = TRUE, !.status = r.status,
                                !.dropped = Len(api_call_times) - Len(r.times)]
        /\ UNCHANGED <<now, selected_team, cached_data, cache_time, sheets,
                       failures, data, stats, hall, history>>

\* the clock moves on to a later instant
Tick ==
    /\ \E t \in SessionInstants : t > now /\ now' = t
    /\ last' = [NoOp EXCEPT !.op = "tick"]
    /\ UNCHANGED <<api_call_times, selected_team, cached_data, cache_time,
                   sheets, failures, data, stats, hall, history>>

Next ==
    \/ TestConnection
    \/ LoadData
    \/ SaveWinner
    \/ SwitchTeam
    \/ RefreshStats
    \/ ShowStatus
    \/ Tick

Spec == Init /\ [][Next]_vars

----------------------------------------------------------------------------
(* SpecBusy: a session that loads and saves as fast as the governor lets it *)

BusyInstants ==
    {MINUTE_SECONDS * k : k \in 0..MaxBusyMinutes} \cup {HOUR_SECONDS}

\* the clock moves on to the next instant once the governor refuses a call
BusyTick ==
    /\ ~check_api_rate_limit(api_call_times, now).status.can_make_call
    /\ \E t \in BusyInstants :
           /\ t > now
           /\ \A u \in BusyInstants : u > now => t <= u
           /\ now' = t
    /\ last' = [NoOp EXCEPT !.op = "tick"]
    /\ UNCHANGED <<api_call_times, selected_team, cached_data, cache_time,
                   sheets, failures, data, stats, hall, history>>

BusyNext == LoadData \/ SaveWinner \/ BusyTick

SpecBusy == Init /\ [][BusyNext]_vars

----------------------------------------------------------------------------
(* calculate_statistics *)

NanText == <<"n", "a", "n">>
NoneText == <<"N", "o", "n", "e">>

\* pandas NaT, and the position of NaT in an ascending sort (last)
NaT == 0
Unparseable == -1
SortKey(d) == IF d = NaT THEN Len(IsoDates) + 1 ELSE d

\* str.strip(): leading and trailing blanks removed
RECURSIVE lstrip(_)
lstrip(text) ==
    IF text # <<>> /\ Head(text) = " " THEN lstrip(Tail(text)) ELSE text

RECURSIVE rstrip(_)
rstrip(text) ==
    IF text # <<>> /\ text[Len(text)] = " "
    THEN rstrip(SubSeq(text, 1, Len(text) - 1))
    ELSE text

strip(text) == rstrip(lstrip(text))

\* pd.to_datetime of one cell: an ISO date parses to its date, the empty
\* text to NaT, any other text does not parse
to_datetime(cell) ==
    IF \E d \in 1..Len(IsoDates) : IsoDates[d] = cell
    THEN CHOOSE d \in 1..Len(IsoDates) : IsoDates[d] = cell
    ELSE IF cell = "" THEN NaT
    ELSE Unparseable

\* the cleaning step without the strip of the winner column
clean_unstripped(records) ==
    [i \in 1..Len(records) |->
        [index |-> i,
         winner |-> records[i].winner,
         date |-> to_datetime(records[i].date)]]

\* lines 243-244: the frame with stripped winners and parsed dates; `index`
\* is the row label
clean(records) ==
    [i \in 1..Len(records) |->
        [index |-> i,
         winner |-> strip(records[i].winner),
         date |-> to_datetime(records[i].date)]]

\* lines 247-252: the rows whose winner is neither empty nor a placeholder
filter_valid(df) ==
    SelectSeq(df, LAMBDA row :
        row.winner # <<>> /\ row.winner # NanText /\ row.winner # NoneText)

\* df.sort_values('date'): ascending, NaT last, rows of equal date in their
\* previous order (the sort of numpy is an insertion sort below 17 rows)
RECURSIVE insert_sorted(_, _)
insert_sorted(sorted, row) ==
    IF sorted = <<>> THEN <<row>>
    ELSE IF SortKey(sorted[Len(sorted)].date) <= SortKey(row.date)
         THEN Append(sorted, row)
         ELSE Append(insert_sorted(SubSeq(sorted, 1, Len(sorted) - 1), row),
                     sorted[Len(sorted)])

\* sort_values with the order reversed: latest date first
RECURSIVE sort_values_descending(_)
sort_values_descending(df) ==
    IF df = <<>> THEN <<>>
    ELSE LET rest == sort_values_descending(Tail(df))
             before == SelectSeq(rest,
                           LAMBDA r : SortKey(r.date) > SortKey(Head(df).date))
             after == SelectSeq(rest,
                          LAMBDA r : SortKey(r.date) <= SortKey(Head(df).date))
         IN  before \o <<Head(df)>> \o after

RECURSIVE sort_values(_)
sort_values(df) ==
    IF df = <<>> THEN <<>>
    ELSE insert_sorted(sort_values(SubSeq(df, 1, Len(df) - 1)), df[Len(df)])

\* value_counts that skips the first row of the frame
value_counts_skipfirst(df) ==
    [w \in {df[i].winner : i \in 1..Len(df)} |->
        Cardinality({i \in 2..Len(df) : df[i].winner = w})]

\* df['winner'].value_counts(): winner -> number of rows
value_counts(df) ==
    [w \in {df[i].winner : i \in 1..Len(df)} |->
        Cardinality({i \in 1..Len(df) : df[i].winner = w})]

\* df['winner'].nunique()
nunique(df) == Cardinality({df[i].winner : i \in 1..Len(df)})

\* idxmin in the place of idxmax: the label of the first row holding the
\* earliest date
idxmin(df) ==
    LET dated == {i \in 1..Len(df) : df[i].date # NaT}
        tops == {i \in dated : \A j \in dated : df[j].date >= df[i].date}
    IN  IF dated = {} THEN 0
        ELSE df[CHOOSE i \in tops : \A j \in tops : i <= j].index

\* df['date'].idxmax(): the label of the first row holding the latest date,
\* NaT skipped; 0 when every date is NaT (idxmax then raises)
idxmax(df) ==
    LET dated == {i \in 1..Len(df) : df[i].date # NaT}
        tops == {i \in dated : \A j \in dated : df[j].date <= df[i].date}
    IN  IF dated = {} THEN 0
        ELSE df[CHOOSE i \in tops : \A j \in tops : i <= j].index

\* lines 279-296: the loop over the sorted rows with its running counters
RECURSIVE cumulative_loop(_, _, _, _)
cumulative_loop(df, i, win_tracking, cumulative_data) ==
    IF i > Len(df) THEN cumulative_data
    ELSE LET winner == df[i].winner
             wins == win_tracking[winner] + 1
         IN  cumulative_loop(df, i + 1,
                 [win_tracking EXCEPT ![winner] = wins],
                 Append(cumulative_data,
                        [date |-> df[i].date, winner |-> winner,
                         cumulative_wins |-> wins]))

\* calculate_statistics() on the list load_data returned: "none" for the
\* None result, "raised" when an exception escapes, "bundle" for the
\* statistics
calculate_statistics(records) ==
    IF records = <<>> THEN NoStats("none")
    ELSE IF \E i \in 1..Len(records) : to_datetime(records[i].date) = Unparseable
    THEN NoStats("raised")
    ELSE LET valid == filter_valid(clean(records))
             df == sort_values(valid)
             win_counts == value_counts(df)
             top == idxmax(df)
             current_champion ==
                 (CHOOSE row \in Range(df) : row.index = top).winner
         IN  IF valid = <<>> THEN NoStats("none")
             ELSE IF top = 0 THEN NoStats("raised")
             ELSE [kind |-> "bundle",
                   total_races |-> Len(df),
                   unique_winners |-> nunique(df),
                   win_counts |-> win_counts,
                   current_champion |-> current_champion,
                   champion_total_wins |->
                       IF current_champion \in DOMAIN win_counts
                       THEN win_counts[current_champion] ELSE 0,
                   cumulative |->
                       cumulative_loop(df, 1,
                           [w \in DOMAIN win_counts |-> 0], <<>>)]

----------------------------------------------------------------------------
(* SpecStats: calculate_statistics on bounded record lists *)

WinnerCells ==
    { Sam, <<" ">> \o Sam, Sam \o <<" ">>, Nate, <<" ">>, <<>>, NanText,
      NoneText }
DateCells == {"2024-01-01", "2024-01-08", "", "soon"}
Records == [winner : WinnerCells, date : DateCells]

RecordLists == UNION {[1..n -> Records] : n \in 0..MaxRecords}

StatsInit ==
    /\ SessionInit
    /\ sheets = [t \in Teams |-> NoSheet]
    /\ data \in RecordLists

\* calculate_statistics() once load_data has returned `data`
CalculateStatistics ==
    /\ stats.kind = "unset"
    /\ stats' = calculate_statistics(data)
    /\ last' = [NoOp EXCEPT !.op = "calculate_statistics"]
    /\ UNCHANGED <<now, api_call_times, selected_team, cached_data,
                   cache_time, sheets, failures, data, hall, history>>

StatsNext == CalculateStatistics

SpecStats == StatsInit /\ [][StatsNext]_vars

----------------------------------------------------------------------------
(* SpecTiers: the Hall of Fame of the statistics tab *)

\* lines 771, 782-784, 795-797, 808-810, 821: the rows of win_counts each
\* tier column lists
diamond_champions(win_counts) ==
    {w \in DOMAIN win_counts : win_counts[w] >= 8}

\* the platinum filter with its lower edge compared by > instead of >=
platinum_champions_gt(win_counts) ==
    {w \in DOMAIN win_counts : win_counts[w] > 6 /\ win_counts[w] < 8}

platinum_champions(win_counts) ==
    {w \in DOMAIN win_counts : win_counts[w] >= 6 /\ win_counts[w] < 8}

gold_champions(win_counts) ==
    {w \in DOMAIN win_counts : win_counts[w] >= 4 /\ win_counts[w] < 6}

silver_champions(win_counts) ==
    {w \in DOMAIN win_counts : win_counts[w] >= 2 /\ win_counts[w] < 4}

bronze_champions(win_counts) ==
    {w \in DOMAIN win_counts : win_counts[w] = 1}

\* the records of two winners on one race day
TierRecords == [winner : {Sam, Nate}, date : {"2024-01-01"}]
TierLists == UNION {[1..n -> TierRecords] : n \in 0..MaxTierRecords}

TiersInit ==
    /\ SessionInit
    /\ sheets = [t \in Teams |-> NoSheet]
    /\ data \in TierLists

\* the Hall of Fame columns, rendered when calculate_statistics returned a
\* bundle (lines 604, 763-827)
HallOfFame ==
    /\ stats.kind = "bundle"
    /\ hall.kind = "unset"
    /\ hall' = [kind |-> "shown",
                diamond |-> diamond_champions(stats.win_counts),
                platinum |-> platinum_champions(stats.win_counts),
                gold |-> gold_champions(stats.win_counts),
                silver |-> silver_champions(stats.win_counts),
                bronze |-> bronze_champions(stats.win_counts)]
    /\ last' = [NoOp EXCEPT !.op = "hall_of_fame"]
    /\ UNCHANGED <<now, api_call_times, selected_team, cached_data,
                   cache_time, sheets, failures, data, stats, history>>

TiersNext == CalculateStatistics \/ HallOfFame

SpecTiers == TiersInit /\ [][TiersNext]_vars

----------------------------------------------------------------------------
(* Claims about the governor (SpecGov) *)

\* `new` is `old` without its entries one hour old or older at time t:
\* nothing added, nothing younger removed, order kept (the list is in clock
\* order, so the entries removed are a prefix)
Pruned(old, new, t) ==
    LET k == Len(old) - Len(new)
    IN  /\ k >= 0
        /\ new = SubSeq(old, k + 1, Len(old))
        /\ \A i \in 1..k : t - old[i] >= 3600
        /\ \A i \in 1..Len(new) : t - new[i] < 3600

\* C1: when a status check finds exactly 15 recorded calls less than 60
\* seconds old it reports minute_exceeded and refuses the call; when it finds
\* every recorded call 60 seconds old or older it reports minute_exceeded
\* false.
C1_CeilingAndRecovery ==
    last.op = "check_api_rate_limit" =>
        /\ (Count(api_call_times, LAMBDA t : now - t < 60) = 15
                => last.status.minute_exceeded /\ ~last.status.can_make_call)
        /\ ((\A i \in 1..Len(api_call_times) : now - api_call_times[i] >= 60)
                => ~last.status.minute_exceeded)

\* 15 calls were recorded, exactly 60 seconds went by, and the check reports
\* the minute window clear again
C1_Witness ==
    /\ last.op = "check_api_rate_limit"
    /\ Len(api_call_times) = 15
    /\ \A i \in 1..Len(api_call_times) : now - api_call_times[i] = 60
    /\ ~last.status.minute_exceeded
    /\ last.status.can_make_call

\* C2: every returned status is a threshold function of its two counts:
\* exceeded at 15 per minute and 200 per hour, warning at 12 and 160,
\* can_make_call iff neither is exceeded; an exceeded flag implies its
\* warning flag.
C2_Thresholds ==
    last.checked =>
        LET s == last.status
        IN  /\ s.minute_exceeded <=> s.calls_last_minute >= 15
            /\ s.hour_exceeded <=> s.calls_last_hour >= 200
            /\ s.minute_warning <=> s.calls_last_minute >= 12
            /\ s.hour_warning <=> s.calls_last_hour >= 160
            /\ s.can_make_call <=> ~(s.minute_exceeded \/ s.hour_exceeded)
            /\ s.minute_exceeded => s.minute_warning
            /\ s.hour_exceeded => s.hour_warning

\* the hour ceiling is reached while the minute window is only at its
\* warning level
C2_Witness ==
    /\ last.checked
    /\ last.status.hour_exceeded
    /\ last.status.minute_warning
    /\ ~last.status.minute_exceeded
    /\ ~last.status.can_make_call

\* C3: a status check stores back exactly the entries less than 3600 seconds
\* old, in order; calls_last_hour is the length of that list and
\* calls_last_minute the number of its entries less than 60 seconds old, so
\* calls_last_minute <= calls_last_hour.
C3_PruneOnCheck ==
    [][last'.op = "check_api_rate_limit" =>
        /\ Pruned(api_call_times, api_call_times', now)
        /\ last'.status.calls_last_hour = Len(api_call_times')
        /\ last'.status.calls_last_minute =
               Count(api_call_times', LAMBDA t : now' - t < 60)
        /\ last'.status.calls_last_minute <= last'.status.calls_last_hour
        /\ last'.dropped = Len(api_call_times) - Len(api_call_times')]_vars

\* a check dropped entries exactly one hour old and kept one-second-younger
\* ones, none of which counts for the minute window
C3_Witness ==
    /\ last.op = "check_api_rate_limit"
    /\ last.dropped > 0
    /\ api_call_times # <<>>
    /\ \A i \in 1..Len(api_call_times) : now - api_call_times[i] = 3599
    /\ last.status.calls_last_minute = 0

----------------------------------------------------------------------------
(* Claims about the session (Spec) *)

\* how often `row` occurs in `rows`
Occurrences(rows, row) == Count(rows, LAMBDA x : x = row)

\* the cache entry load_data falls back on
CachedOrEmpty(cache, team) ==
    IF cache[team].has THEN cache[team].val ELSE <<>>

\* C4: a load_data the governor refuses sends no store request, leaves the
\* worksheets and the cache as they were, records no timestamp (the list is
\* only pruned) and returns the team's cached records, or the empty list
\* when there are none.
C4_RateLimitedRead ==
    [][(last'.op = "load_data" /\ last'.checked
            /\ ~last'.status.can_make_call) =>
        /\ last'.path \in {"rate_limited_cached", "rate_limited_empty"}
        /\ last'.requests = 0
        /\ sheets' = sheets
        /\ Pruned(api_call_times, api_call_times', now)
        /\ cached_data' = cached_data
        /\ cache_time' = cache_time
        /\ last'.records = CachedOrEmpty(cached_data, selected_team)]_vars

\* a refused load served a non-empty cached copy
C4_Witness ==
    /\ last.op = "load_data"
    /\ ~last.status.can_make_call
    /\ last.path = "rate_limited_cached"
    /\ last.records # <<>>
    /\ last.records = cached_data[selected_team].val

C6_ReadFailureFallback ==
    (last.op = "load_data"
        /\ last.path \in {"no_worksheet", "read_failed_cached",
                          "read_failed_empty"}) =>
        last.records = CachedOrEmpty(cached_data, last.team)

\* C7: save_winner_to_sheets returns True only with its row [winner, ISO
\* date] appended once at the end of the selected team's worksheet and that
\* team's cache entry and cache time deleted; when it returns False no such
\* row is added to any worksheet and every cache entry stays in place.
C7_WriteFailureSurfaced ==
    [][last'.op = "save_winner_to_sheets" =>
        LET t == selected_team
            new_row == <<last'.winner, isoformat(last'.race_date)>>
        IN  /\ last'.ok =>
                /\ last'.path = "saved"
                /\ sheets'[t].rows # <<>>
                /\ sheets'[t].rows[Len(sheets'[t].rows)] = new_row
                /\ Occurrences(sheets'[t].rows, new_row)
                       <= Occurrences(sheets[t].rows, new_row) + 1
                /\ \A u \in Teams \ {t} : sheets'[u] = sheets[u]
                /\ ~cached_data'[t].has
                /\ ~cache_time'[t].has
            /\ ~last'.ok =>
                /\ \A u \in Teams :
                       Occurrences(sheets'[u].rows, new_row)
                           <= Occurrences(sheets[u].rows, new_row)
                /\ cached_data' = cached_data
                /\ cache_time' = cache_time]_vars

\* the append raised, the save returned False and the team's cached records
\* are still there
C7_Witness ==
    /\ last.op = "save_winner_to_sheets"
    /\ last.path = "append_failed"
    /\ ~last.ok
    /\ cached_data[selected_team].has
    /\ cached_data[selected_team].val # <<>>
    /\ cache_time[selected_team].has

\* s is a prefix of t
IsPrefix(s, t) == Len(s) <= Len(t) /\ SubSeq(t, 1, Len(s)) = s

\* C8: the record store is append-only: no step deletes or changes a record
\* row of a worksheet, and the rows of a worksheet change only by the one
\* row a successful save appends.
C8_AppendOnly ==
    [][\A t \in Teams :
        /\ IsPrefix(sheets[t].rows, sheets'[t].rows)
        /\ sheets'[t].rows # sheets[t].rows =>
            /\ last'.op = "save_winner_to_sheets"
            /\ last'.ok
            /\ Len(sheets'[t].rows) = Len(sheets[t].rows) + 1]_vars

----------------------------------------------------------------------------
(* Claims about calculate_statistics (SpecStats) *)

\* the sum of a table of counts
RECURSIVE SumCounts(_, _)
SumCounts(counts, keys) ==
    IF keys = {} THEN 0
    ELSE LET k == CHOOSE x \in keys : TRUE
         IN  counts[k] + SumCounts(counts, keys \ {k})

\* a loaded record counts as valid when its stripped winner is neither empty
\* nor 'nan' nor 'None'
ValidRecord(record) ==
    strip(record.winner) \notin {<<>>, NanText, NoneText}

\* C9: in every bundle calculate_statistics returns, the win counts add up
\* to total_races, there are unique_winners of them, and each is at least 1.
C9_CountConservation ==
    stats.kind = "bundle" =>
        /\ SumCounts(stats.win_counts, DOMAIN stats.win_counts)
               = stats.total_races
        /\ Cardinality(DOMAIN stats.win_counts) = stats.unique_winners
        /\ \A w \in DOMAIN stats.win_counts : stats.win_counts[w] >= 1
        /\ stats.total_races = Count(data, ValidRecord)

\* a bundle over three valid records of two winners, one of them written
\* with and without surrounding blanks
C9_Witness ==
    /\ stats.kind = "bundle"
    /\ stats.total_races = 3
    /\ stats.unique_winners = 2
    /\ \E w \in DOMAIN stats.win_counts : stats.win_counts[w] = 2
    /\ \E i \in 1..Len(data) : data[i].winner # strip(data[i].winner)

\* C10: the cumulative series has one entry per valid record, in ascending
\* date order; the entry of a record carries the number of entries of its
\* winner up to and including it (1, 2, ..., k), and the last entry of a
\* winner carries that winner's win count.
C10_CumulativeSeries ==
    stats.kind = "bundle" =>
        LET c == stats.cumulative
        IN  /\ Len(c) = Count(data, ValidRecord)
            /\ \A i, j \in 1..Len(c) :
                   (i < j /\ c[i].date # NaT /\ c[j].date # NaT)
                       => c[i].date <= c[j].date
            /\ \A i \in 1..Len(c) :
                   c[i].cumulative_wins =
                       Cardinality({j \in 1..i : c[j].winner = c[i].winner})
            /\ \A w \in DOMAIN stats.win_counts :
                   \E i \in 1..Len(c) :
                       /\ c[i].winner = w
                       /\ c[i].cumulative_wins = stats.win_counts[w]
                       /\ \A j \in (i + 1)..Len(c) : c[j].winner # w
            /\ \A i \in 1..Len(c) : c[i].winner \in DOMAIN stats.win_counts

\* records loaded out of date order: a winner's series runs 1, 2 with another
\* winner's entry in between
C10_Witness ==
    /\ stats.kind = "bundle"
    /\ Len(data) = 3
    /\ to_datetime(data[1].date) > to_datetime(data[3].date)
    /\ Len(stats.cumulative) = 3
    /\ stats.cumulative[1].winner = stats.cumulative[3].winner
    /\ stats.cumulative[1].winner # stats.cumulative[2].winner
    /\ stats.cumulative[3].cumulative_wins = 2
    /\ stats.cumulative[1].date < stats.cumulative[3].date

\* the positions of `data` whose record has a valid winner and a date that
\* parsed
Dated(records) ==
    {i \in 1..Len(records) :
        /\ ValidRecord(records[i])
        /\ to_datetime(records[i].date) \notin {NaT, Unparseable}}

\* among them, the positions holding the latest date
Latest(records) ==
    {i \in Dated(records) :
        \A j \in Dated(records) :
            to_datetime(records[j].date) <= to_datetime(records[i].date)}

\* C11: in every bundle, current_champion is the winner of a valid record
\* holding the latest date, namely of the one loaded first among those
\* sharing it (so the same list always gives the same champion), and
\* champion_total_wins is that winner's entry of win_counts; and a non-empty
\* list of valid, dated records always gives a bundle.
C11_CurrentChampion ==
    /\ stats.kind = "bundle" =>
        /\ Latest(data) # {}
        /\ \E i \in Latest(data) :
               /\ \A j \in Latest(data) : i <= j
               /\ stats.current_champion = strip(data[i].winner)
        /\ stats.current_champion \in DOMAIN stats.win_counts
        /\ stats.champion_total_wins = stats.win_counts[stats.current_champion]
    /\ (last.op = "calculate_statistics" /\ data # <<>>
            /\ Dated(data) = 1..Len(data)) => stats.kind = "bundle"

\* two records of different winners share the latest date and the champion
\* is the one loaded first, who also won an earlier race
C11_Witness ==
    /\ stats.kind = "bundle"
    /\ Len(data) = 3
    /\ Latest(data) = {2, 3}
    /\ strip(data[2].winner) # strip(data[3].winner)
    /\ stats.current_champion = strip(data[2].winner)
    /\ stats.champion_total_wins = 2

\* C12: calculate_statistics returns None, without raising, when the loaded
\* list is empty and when no loaded record has a valid winner.
C12_EmptyResult ==
    (last.op = "calculate_statistics"
        /\ \A i \in 1..Len(data) : ~ValidRecord(data[i])) =>
        stats.kind = "none"

\* `records` with the winners stripped, as a set
WinnersOf(records) ==
    {strip(records[i].winner) :
        i \in {j \in 1..Len(records) : ValidRecord(records[j])}}

\* C13: in every bundle total_races is the number of records with a valid
\* winner and win_counts has one entry per stripped valid winner; a
\* whitespace-only record added to the list never raises total_races and
\* never adds an entry to win_counts.
C13_WinnerSanitation ==
    last.op = "calculate_statistics" =>
        /\ stats.kind = "bundle" =>
            /\ stats.total_races = Count(data, ValidRecord)
            /\ DOMAIN stats.win_counts = WinnersOf(data)
            /\ stats.unique_winners = Cardinality(WinnersOf(data))
        /\ \A d \in DateCells :
               LET more == calculate_statistics(
                               Append(data, [winner |-> <<" ">>, date |-> d]))
               IN  more.kind = "bundle" =>
                       /\ stats.kind = "bundle"
                       /\ more.total_races = stats.total_races
                       /\ more.win_counts = stats.win_counts

\* one winner written three ways, one of them beside a whitespace-only
\* record: counted as one winner
C13_Witness ==
    /\ stats.kind = "bundle"
    /\ Len(data) = 3
    /\ data[1].winner = <<" ">> \o Sam
    /\ data[2].winner = Sam \o <<" ">>
    /\ data[3].winner = <<" ">>
    /\ stats.total_races = 2
    /\ stats.unique_winners = 1
    /\ stats.win_counts[Sam] = 2

\* C15: a record whose date does not parse is dropped: calculate_statistics
\* returns what it returns for the remaining records, never an exception.
C15_UnparseableDates ==
    (last.op = "calculate_statistics"
        /\ \E i \in 1..Len(data) : to_datetime(data[i].date) = Unparseable) =>
        /\ stats.kind # "raised"
        /\ stats = calculate_statistics(
                       SelectSeq(data,
                           LAMBDA rec : to_datetime(rec.date) # Unparseable))

----------------------------------------------------------------------------
(* Claims about the Hall of Fame (SpecTiers) *)

\* the tiers a winner is listed under
TiersOf(w) ==
    {tier \in {"diamond", "platinum", "gold", "silver", "bronze"} :
        w \in hall[tier]}

\* C14: every winner of win_counts is listed under exactly one tier, the one
\* of its win count: Diamond from 8, Platinum 6-7, Gold 4-5, Silver 2-3,
\* Bronze 1; nobody else is listed.
C14_TierPartition ==
    hall.kind = "shown" =>
        /\ \A w \in DOMAIN stats.win_counts :
               LET n == stats.win_counts[w]
               IN  /\ Cardinality(TiersOf(w)) = 1
                   /\ n >= 1
                   /\ TiersOf(w) =
                          IF n >= 8 THEN {"diamond"}
                          ELSE IF n >= 6 THEN {"platinum"}
                          ELSE IF n >= 4 THEN {"gold"}
                          ELSE IF n >= 2 THEN {"silver"}
                          ELSE {"bronze"}
        /\ hall.diamond \cup hall.platinum \cup hall.gold \cup hall.silver
               \cup hall.bronze = DOMAIN stats.win_counts

\* one winner at the lower edge of Platinum beside one at the upper edge of
\* Silver
C14_Witness ==
    /\ hall.kind = "shown"
    /\ DOMAIN stats.win_counts = {Sam, Nate}
    /\ stats.win_counts[Sam] = 6
    /\ stats.win_counts[Nate] = 3
    /\ hall.platinum = {Sam}
    /\ hall.silver = {Nate}

----------------------------------------------------------------------------
(* Claims about the cache and the recorded calls (SpecBusy, Spec) *)

\* the timestamps a step recorded: the growth of the list beyond what the
\* step's check pruned
StampsRecorded ==
    Len(api_call_times') - (Len(api_call_times) - last'.dropped)

\* C16: load_data without force_refresh on a cached copy less than 60
\* seconds old returns the cached records, sends no store request, runs no
\* rate check and changes neither the timestamp list nor any cache entry;
\* with force_refresh, without a cached copy or with one 60 seconds old or
\* older it goes on to the rate check.
C16_FreshCacheHit ==
    [][last'.op = "load_data" =>
        LET t == selected_team
            hit == /\ ~last'.force
                   /\ cached_data[t].has
                   /\ cache_time[t].has
                   /\ now - cache_time[t].val < 60
        IN  /\ hit =>
                /\ last'.path = "fresh_cache"
                /\ last'.records = cached_data[t].val
                /\ last'.requests = 0
                /\ ~last'.checked
                /\ api_call_times' = api_call_times
                /\ cached_data' = cached_data
                /\ cache_time' = cache_time
                /\ sheets' = sheets
            /\ ~hit =>
                /\ last'.path # "fresh_cache"
                /\ last'.checked]_vars

\* a load without force_refresh met a cached copy exactly 60 seconds old,
\* went to the store, and fell back on the copy when the fetch raised
C16_Witness ==
    /\ last.op = "load_data"
    /\ ~last.force
    /\ last.checked
    /\ last.path = "read_failed_cached"
    /\ cache_time[selected_team].has
    /\ now - cache_time[selected_team].val = 60

\* C19: at every moment at most 15 recorded timestamps are less than 60
\* seconds old and at most 200 less than 3600 seconds old; a load or save
\* that passes the rate check and obtains a worksheet records exactly one
\* timestamp, the current time, whether its store call succeeds or fails,
\* and any other load or save records none.
C19_RecordedCallBound ==
    [][/\ Count(api_call_times', LAMBDA t : now' - t < 60) <= 15
       /\ Count(api_call_times', LAMBDA t : now' - t < 3600) <= 200
       /\ last'.op \in {"load_data", "save_winner_to_sheets"} =>
            IF last'.path \in {"read_ok", "read_failed_cached",
                               "read_failed_empty", "saved", "append_failed"}
            THEN /\ last'.status.can_make_call
                 /\ StampsRecorded = 1
                 /\ api_call_times'[Len(api_call_times')] = now
            ELSE StampsRecorded = 0]_vars

\* the 200th call of the hour was a load whose fetch raised: it is recorded
\* all the same
C19_Witness ==
    /\ last.op = "load_data"
    /\ last.path \in {"read_failed_cached", "read_failed_empty"}
    /\ Len(api_call_times) = 200
    /\ \A i \in 1..Len(api_call_times) : now - api_call_times[i] < 3600
    /\ Count(api_call_times, LAMBDA t : now - t < 60) < 15

\* the record a saved row reads back as
IsRow(record, row) == record.winner = row[1] /\ record.date = row[2]

C18_LastKnownGood ==
    [][(last'.op = "load_data" /\ last'.checked
            /\ ~last'.status.can_make_call
            /\ history[selected_team].read) =>
        last'.records = history[selected_team].records]_vars

\* C18 as amended: once the team's records were fetched, a load_data the
\* governor refuses returns the records fetched last if clear_cache_for_team
\* did not run for the team since that fetch, and the empty list if it did;
\* it runs for a team only in a successful save for it, a refresh of it or
\* a switch to it.
C18_LastKnownGoodUnlessCleared ==
    [][/\ (last'.op = "load_data" /\ last'.checked
               /\ ~last'.status.can_make_call
               /\ history[selected_team].read) =>
            last'.records =
                IF history[selected_team].cleared THEN <<>>
                ELSE history[selected_team].records
       /\ \A t \in Teams :
            (history'[t].cleared /\ ~history[t].cleared) =>
                /\ last'.team = t
                /\ \/ last'.op = "save_winner_to_sheets" /\ last'.ok
                   \/ last'.op \in {"refresh_stats", "switch_team"}
       /\ \A t \in Teams :
            cached_data'[t].has <=> (history'[t].read /\ ~history'[t].cleared)]_vars

\* records were fetched, a successful save cleared the cache, and the load
\* the governor then refused returned the empty list
C18_Witness ==
    /\ last.op = "load_data"
    /\ ~last.status.can_make_call
    /\ last.records = <<>>
    /\ history[selected_team].read
    /\ history[selected_team].records # <<>>
    /\ history[selected_team].cleared
    /\ history[selected_team].stale

\* C20: every store request is matched by a recorded timestamp: each step
\* records as many timestamps as it sends requests to the store.
C20_EveryRequestCounted ==
    [][StampsRecorded = last'.requests]_vars

====
